---- MODULE Spec2Model ----
(***************************************************************************)
(* A model of the two programs of the repository.                          *)
(*                                                                         *)
(*   mdns_monitor.py  the monitor: a services dictionary fed by             *)
(*                    ServiceBrowser callbacks, a periodic query thread      *)
(*                    that renews the browser, and a command shell           *)
(*                    (specification Spec);                                  *)
(*   mdns.py          the registering program, of which two instances run    *)
(*                    on the same network (specification RegSpec).           *)
(*                                                                         *)
(* Threads interleave between Python statements.  The mDNS library is the   *)
(* environment: it announces services, resolves them and calls the          *)
(* monitor's handler from each ServiceBrowser's own thread.                 *)
(***************************************************************************)
EXTENDS Naturals, Sequences, FiniteSets

\* ------------------------------------------------------------------ bounds

\* ServiceBrowser objects created in one run: the one of __init__ and the renews.
MaxBrowsers == 2

\* --------------------------------------------------------------- constants

\* Instance names of type _http._tcp.local. seen on the network; mdns.py
\* registers the first.
Names == {"MyService", "Other"}

Browsers == 1..MaxBrowsers

\* The two concurrent instances of mdns.py.
Instances == {"p", "q"}

\* The data a service announces (its port, properties and addresses): a service
\* is registered with "a" and an update changes it to the other value.
Data == {"a", "b"}

Other(data) == IF data = "a" THEN "b" ELSE "a"

\* "": get_service_info returning None, a name no browser knows, a name that
\* is not registered.
NoInfo == ""

\* info.addresses of a resolved service: the IPv4 addresses only. MyService has
\* one (mdns.py registers 192.168.1.100); Other drops its IPv4 address in its
\* update and is reachable over IPv6 alone from then on.
HasAddr(n, data) == ~(n = "Other" /\ data = "b")

\* A browser thread outside the handler.
Idle == [pc |-> "idle", n |-> "-", info |-> NoInfo]

VARIABLES
    \* ---- mdns_monitor.py
    services,    \* MDNSMonitor.services: the dict, as its entries in insertion order
    stop_event,  \* MDNSMonitor.stop_event is set
    zcClosed,    \* MDNSMonitor.zeroconf has been closed
    browsers,    \* b -> "none" | "open" | "closed": the state of zeroconf when b was created
    browser,     \* MDNSMonitor.browser: the browser the attribute refers to
    bview,       \* b -> n -> b -> the names browser b has reported Added and not Removed since
    bpc,         \* b -> where b's thread is inside on_service_state_change
    net,         \* n -> the data n announces ("": not registered)
    mpc,         \* the main thread's position
    mexc,        \* the exception the main thread holds, "" when none
    qbound,      \* the name query_thread is bound in the main block
    it,          \* the dict iterator of display_services
    listing,     \* the names display_services has printed in the current call
    snaps,       \* the key sets the dict has had since the current display began
    qpc,         \* the query thread's position
    out,         \* the lines the last step printed
    \* ---- mdns.py
    rpc,         \* i -> the position of instance i
    rzc,         \* i -> the Zeroconf instance it constructed: "none" | "open" | "closed"
    rbound,      \* i -> zeroconf and service_info are bound in the main block
    rexc,        \* i -> the exception that ended the try block, "" when none
    rcalls,      \* i -> the calls made in the finally block, in order
    announced    \* the instances whose records are announced on the network

monVars == <<services, stop_event, zcClosed, browsers, browser, bview, bpc, net,
             mpc, mexc, qbound, it, listing, snaps, qpc, out>>
regVars == <<rpc, rzc, rbound, rexc, rcalls, announced>>
vars == <<monVars, regVars>>

\* ------------------------------------------------------- the services dict

Keys(d) == {d[i].name : i \in DOMAIN d}

Idx(d, n) == CHOOSE i \in DOMAIN d : d[i].name = n

Get(d, n) == d[Idx(d, n)].info

\* d[n] = info with a fresh entry for every store.
PutAppend(d, n, info) == Append(d, [name |-> n, info |-> info])

\* d[n] = info: the value is replaced in place, a new key is appended.
Put(d, n, info) ==
    IF n \in Keys(d)
    THEN [d EXCEPT ![Idx(d, n)].info = info]
    ELSE Append(d, [name |-> n, info |-> info])

\* del d[n] (n is a key).
Del(d, n) == SelectSeq(d, LAMBDA e : e.name # n)

\* The iterator's cursor after del d[n]: the entries before it move up by one.
PosAfterDel(d, n, pos) == IF Idx(d, n) <= pos THEN pos - 1 ELSE pos

NoIter == [used |-> 0, pos |-> 0]

\* ------------------------------------------------------------------- Init

MonInit ==
    /\ services = <<>>
    /\ stop_event = FALSE
    /\ zcClosed = FALSE
    /\ browsers = [b \in Browsers |-> IF b = 1 THEN "open" ELSE "none"]
    /\ browser = 1
    /\ bview = [b \in Browsers |-> {}]
    /\ bpc = [b \in Browsers |-> Idle]
    /\ net \in [Names -> {"", "a"}]
    /\ mpc = "run"
    /\ mexc = ""
    /\ qbound = FALSE
    /\ it = NoIter
    /\ listing = {}
    /\ snaps = {}
    /\ qpc = "unstarted"
    /\ out = <<>>

RegInit ==
    /\ rpc = [i \in Instances |-> "start"]
    /\ rzc = [i \in Instances |-> "none"]
    /\ rbound = [i \in Instances |-> FALSE]
    /\ rexc = [i \in Instances |-> ""]
    /\ rcalls = [i \in Instances |-> <<>>]
    /\ announced = {}

Init == MonInit /\ RegInit

\* ---------------------------------------------------------------- helpers

Displaying == mpc = "display"

\* The key sets seen by a running display, after the dict became d.
Seen(d) == IF Displaying THEN snaps \cup {Keys(d)} ELSE snaps

FreeSlots == {b \in Browsers : browsers[b] = "none"}

NextSlot == CHOOSE b \in FreeSlots : \A c \in FreeSlots : b <= c

\* ServiceBrowser(self.zeroconf, "_http._tcp.local.", handlers=[...]) assigned to
\* self.browser: one more browser; the ones created before stay subscribed.
NewBrowser ==
    /\ browsers' = [browsers EXCEPT ![NextSlot] = IF zcClosed THEN "closed" ELSE "open"]
    /\ browser' = NextSlot

\* Browser b's thread can take an event from the library and call the handler.
CanCall(b) == browsers[b] = "open" /\ ~zcClosed /\ bpc[b] = Idle

Line(kind, n) == <<kind, n>>

\* ------------------------------------------------ the network (environment)

\* A service of type _http._tcp.local. is registered (mdns.py registers one).
NetRegister(n) ==
    /\ net[n] = ""
    /\ net' = [net EXCEPT ![n] = "a"]
    /\ out' = <<>>
    /\ UNCHANGED <<services, stop_event, zcClosed, browsers, browser, bview, bpc,
                   mpc, mexc, qbound, it, listing, snaps, qpc, regVars>>

\* A registered service announces changed data.
NetUpdate(n) ==
    /\ net[n] # ""
    /\ net' = [net EXCEPT ![n] = Other(@)]
    /\ out' = <<>>
    /\ UNCHANGED <<services, stop_event, zcClosed, browsers, browser, bview, bpc,
                   mpc, mexc, qbound, it, listing, snaps, qpc, regVars>>

\* A registered service says goodbye (mdns.py unregisters on shutdown).
NetUnregister(n) ==
    /\ net[n] # ""
    /\ net' = [net EXCEPT ![n] = ""]
    /\ out' = <<>>
    /\ UNCHANGED <<services, stop_event, zcClosed, browsers, browser, bview, bpc,
                   mpc, mexc, qbound, it, listing, snaps, qpc, regVars>>

\* ------------------------------------------ on_service_state_change: Added

\* add_service without its store.
add_service_nostore(d, n, info) == d

\* add_service without its test of info.
add_service_unchecked(d, n, info) == Put(d, n, info)

\* add_service's effect on the dict, given what get_service_info returned.
add_service(d, n, info) == IF info # NoInfo THEN Put(d, n, info) ELSE d

\* The lines an Added prints: add_service's, then on_service_state_change's.
AddedLines(n, info) ==
    (IF info # NoInfo THEN <<Line("added", n)>> ELSE <<>>)
        \o <<Line("added_by_browser", n)>>

\* Browser b reports n as Added; the handler calls add_service, which resolves n.
CallAdded(b, n) ==
    /\ CanCall(b)
    /\ net[n] # ""
    /\ n \notin bview[b]
    /\ bview' = [bview EXCEPT ![b] = @ \cup {n}]
    /\ \E info \in {NoInfo, net[n]} :
          bpc' = [bpc EXCEPT ![b] = [pc |-> "L39", n |-> n, info |-> info]]
    /\ out' = <<>>
    /\ UNCHANGED <<services, stop_event, zcClosed, browsers, browser, net,
                   mpc, mexc, qbound, it, listing, snaps, qpc, regVars>>

\* The rest of the Added handler: the store, and the two prints.
AddStore(b) ==
    /\ bpc[b].pc = "L39"
    /\ services' = add_service(services, bpc[b].n, bpc[b].info)
    /\ snaps' = Seen(services')
    /\ out' = AddedLines(bpc[b].n, bpc[b].info)
    /\ bpc' = [bpc EXCEPT ![b] = Idle]
    /\ UNCHANGED <<stop_event, zcClosed, browsers, browser, bview, net,
                   mpc, mexc, qbound, it, listing, qpc, regVars>>

\* ---------------------------------------- on_service_state_change: Removed

\* remove_service without its test.
remove_untested(d, n) == TRUE

\* remove_service's test, name in self.services.
remove_test(d, n) == n \in Keys(d)

\* The lines a Removed prints: remove_service's when it deleted, then the handler's.
RemovedLines(n, deleted) ==
    (IF deleted THEN <<Line("removed", n)>> ELSE <<>>)
        \o <<Line("removed_by_browser", n)>>

\* Browser b reports n as Removed; the handler calls remove_service, which tests
\* the name. An unknown name ends the handler here.
CallRemoved(b, n) ==
    /\ CanCall(b)
    /\ net[n] = ""
    /\ n \in bview[b]
    /\ bview' = [bview EXCEPT ![b] = @ \ {n}]
    /\ IF remove_test(services, n)
       THEN /\ bpc' = [bpc EXCEPT ![b] = [pc |-> "L48", n |-> n, info |-> NoInfo]]
            /\ out' = <<>>
       ELSE /\ bpc' = bpc
            /\ out' = RemovedLines(n, FALSE)
    /\ UNCHANGED <<services, stop_event, zcClosed, browsers, browser, net,
                   mpc, mexc, qbound, it, listing, snaps, qpc, regVars>>

\* The rest of the Removed handler: del self.services[name], and the two prints.
\* The del raises KeyError when the key has gone since the test; nothing catches
\* it in the handler.
RemoveDel(b) ==
    /\ bpc[b].pc = "L48"
    /\ IF bpc[b].n \in Keys(services)
       THEN /\ services' = Del(services, bpc[b].n)
            /\ it' = IF Displaying
                     THEN [it EXCEPT !.pos = PosAfterDel(services, bpc[b].n, @)]
                     ELSE it
            /\ out' = RemovedLines(bpc[b].n, TRUE)
            /\ bpc' = [bpc EXCEPT ![b] = Idle]
       ELSE /\ services' = services
            /\ it' = it
            /\ out' = <<>>
            /\ bpc' = [bpc EXCEPT ![b] = [pc |-> "KeyError", n |-> bpc[b].n, info |-> NoInfo]]
    /\ snaps' = Seen(services')
    /\ UNCHANGED <<stop_event, zcClosed, browsers, browser, bview, net,
                   mpc, mexc, qbound, listing, qpc, regVars>>

\* ---------------------------------------- on_service_state_change: Updated

\* An Updated that stores the service's current data.
CallUpdatedRefresh(b, n) ==
    /\ CanCall(b)
    /\ net[n] # ""
    /\ n \in bview[b]
    /\ services' = Put(services, n, net[n])
    /\ out' = <<>>
    /\ UNCHANGED <<stop_event, zcClosed, browsers, browser, bview, bpc, net,
                   mpc, mexc, qbound, it, listing, snaps, qpc, regVars>>

\* Browser b reports n as Updated: neither branch of the handler is taken.
CallUpdated(b, n) ==
    /\ CanCall(b)
    /\ net[n] # ""
    /\ n \in bview[b]
    /\ out' = <<>>
    /\ UNCHANGED <<services, stop_event, zcClosed, browsers, browser, bview, bpc, net,
                   mpc, mexc, qbound, it, listing, snaps, qpc, regVars>>

\* ------------------------------------------------------ the query thread

\* run(): the thread is created and started.
RunStart ==
    /\ mpc = "run"
    /\ mpc' = "started"
    /\ qpc' = "wait"
    /\ out' = <<>>
    /\ UNCHANGED <<services, stop_event, zcClosed, browsers, browser, bview, bpc, net,
                   mexc, qbound, it, listing, snaps, regVars>>

\* run() returns the thread and the main block binds query_thread.
RunReturn ==
    /\ mpc = "started"
    /\ mpc' = "cmdloop"
    /\ qbound' = TRUE
    /\ out' = <<>>
    /\ UNCHANGED <<services, stop_event, zcClosed, browsers, browser, bview, bpc, net,
                   mexc, it, listing, snaps, qpc, regVars>>

\* stop_event.wait(60) returns False after 60 seconds: the loop body is entered.
\* The 60 seconds do not pass while run() is still returning.
QTimeout ==
    /\ qpc = "wait"
    /\ mpc # "started"
    /\ ~stop_event
    /\ FreeSlots # {}
    /\ qpc' = "L65"
    /\ out' = <<>>
    /\ UNCHANGED <<services, stop_event, zcClosed, browsers, browser, bview, bpc, net,
                   mpc, mexc, qbound, it, listing, snaps, regVars>>

\* stop_event.wait(60) returns True: the loop and the thread end.
QStop ==
    /\ qpc = "wait"
    /\ stop_event
    /\ qpc' = "done"
    /\ out' = <<>>
    /\ UNCHANGED <<services, stop_event, zcClosed, browsers, browser, bview, bpc, net,
                   mpc, mexc, qbound, it, listing, snaps, regVars>>

\* The loop body of send_mdns_query: the renew.
QRenew ==
    /\ qpc = "L65"
    /\ NewBrowser
    /\ qpc' = "wait"
    /\ out' = <<>>
    /\ UNCHANGED <<services, stop_event, zcClosed, bview, bpc, net,
                   mpc, mexc, qbound, it, listing, snaps, regVars>>

\* -------------------------------------------------------- the main thread

\* An empty line: display_services prints its header and starts iterating
\* self.services.items().
CmdEmptyLine ==
    /\ mpc = "cmdloop"
    /\ mpc' = "display"
    /\ it' = [used |-> Len(services), pos |-> 0]
    /\ listing' = {}
    /\ snaps' = {Keys(services)}
    /\ out' = <<>>
    /\ UNCHANGED <<services, stop_event, zcClosed, browsers, browser, bview, bpc, net,
                   mexc, qbound, qpc, regVars>>

\* One step of the for loop of display_services: the iterator's next, which
\* raises RuntimeError when the dict's size is not the one it started with, and
\* the print of the entry, which reads info.addresses[0].
DisplayNext ==
    /\ mpc = "display"
    /\ IF Len(services) # it.used
       THEN /\ mexc' = "RuntimeError"
            /\ mpc' = "close"
            /\ UNCHANGED <<it, listing>>
       ELSE IF it.pos < Len(services)
       THEN IF HasAddr(services[it.pos + 1].name, services[it.pos + 1].info)
            THEN /\ listing' = listing \cup {services[it.pos + 1].name}
                 /\ it' = [it EXCEPT !.pos = @ + 1]
                 /\ UNCHANGED <<mpc, mexc>>
            ELSE /\ mexc' = "IndexError"
                 /\ mpc' = "close"
                 /\ UNCHANGED <<it, listing>>
       ELSE /\ mpc' = "displayed"
            /\ UNCHANGED <<it, listing, mexc>>
    /\ out' = <<>>
    /\ UNCHANGED <<services, stop_event, zcClosed, browsers, browser, bview, bpc, net,
                   qbound, snaps, qpc, regVars>>

\* display_services prints its last line and returns to the command loop.
DisplayReturn ==
    /\ mpc = "displayed"
    /\ mpc' = "cmdloop"
    /\ it' = NoIter
    /\ listing' = {}
    /\ snaps' = {}
    /\ out' = <<>>
    /\ UNCHANGED <<services, stop_event, zcClosed, browsers, browser, bview, bpc, net,
                   mexc, qbound, qpc, regVars>>

\* do_query: the renew from the shell.
CmdQuery ==
    /\ mpc = "cmdloop"
    /\ Cardinality(FreeSlots) > (IF qpc = "L65" THEN 1 ELSE 0)
    /\ NewBrowser
    /\ out' = <<>>
    /\ UNCHANGED <<services, stop_event, zcClosed, bview, bpc, net,
                   mpc, mexc, qbound, it, listing, snaps, qpc, regVars>>

\* do_exit returns True: cmdloop returns and the finally block begins.
CmdExit ==
    /\ mpc = "cmdloop"
    /\ mpc' = "close"
    /\ out' = <<>>
    /\ UNCHANGED <<services, stop_event, zcClosed, browsers, browser, bview, bpc, net,
                   mexc, qbound, it, listing, snaps, qpc, regVars>>

\* Ctrl+C inside the try block: the except clause prints, the finally block begins.
Interrupt ==
    /\ mpc \in {"run", "started", "cmdloop", "display", "displayed"}
    /\ mpc' = "close"
    /\ out' = <<>>
    /\ UNCHANGED <<services, stop_event, zcClosed, browsers, browser, bview, bpc, net,
                   mexc, qbound, it, listing, snaps, qpc, regVars>>

\* close(): self.stop_event.set().
CloseSet ==
    /\ mpc = "close"
    /\ stop_event' = TRUE
    /\ mpc' = "L81"
    /\ out' = <<>>
    /\ UNCHANGED <<services, zcClosed, browsers, browser, bview, bpc, net,
                   mexc, qbound, it, listing, snaps, qpc, regVars>>

\* close(): self.zeroconf.close().
CloseZeroconf ==
    /\ mpc = "L81"
    /\ zcClosed' = TRUE
    /\ mpc' = "join"
    /\ out' = <<>>
    /\ UNCHANGED <<services, stop_event, browsers, browser, bview, bpc, net,
                   mexc, qbound, it, listing, snaps, qpc, regVars>>

\* query_thread.join(), then the last print; an exception raised in the try
\* block is raised again after the finally block. An unbound query_thread is
\* a NameError.
Join ==
    /\ mpc = "join"
    /\ IF qbound
       THEN /\ qpc = "done"
            /\ mpc' = IF mexc = "" THEN "stopped" ELSE "raised"
            /\ mexc' = mexc
       ELSE /\ mpc' = "raised"
            /\ mexc' = "NameError"
    /\ out' = <<>>
    /\ UNCHANGED <<services, stop_event, zcClosed, browsers, browser, bview, bpc, net,
                   qbound, it, listing, snaps, qpc, regVars>>

\* ------------------------------------------------------- the monitor's Next

BrowserStep ==
    \E b \in Browsers :
        \/ \E n \in Names : CallAdded(b, n)
        \/ AddStore(b)
        \/ \E n \in Names : CallRemoved(b, n)
        \/ RemoveDel(b)
        \/ \E n \in Names : CallUpdated(b, n)

NetStep == \E n \in Names : NetRegister(n) \/ NetUpdate(n) \/ NetUnregister(n)

StartStep == RunStart \/ RunReturn

RenewStep == QTimeout \/ QRenew \/ CmdQuery

DisplayStep == CmdEmptyLine \/ DisplayNext \/ DisplayReturn

ShutdownStep == CmdExit \/ Interrupt \/ CloseSet \/ CloseZeroconf \/ QStop \/ Join

\* The dict under the callbacks of every browser the renews create. The display
\* and the shutdown, which never write the dict, are left to ShellSpec and
\* StopSpec.
Next == BrowserStep \/ NetStep \/ StartStep \/ RenewStep

Spec == Init /\ [][Next]_vars

\* The callbacks and the renews with the shutdown.
StopNext == BrowserStep \/ NetStep \/ StartStep \/ RenewStep \/ ShutdownStep

StopSpec == Init /\ [][StopNext]_vars

\* The shell's display against the callbacks of the first browser, and the
\* shutdown.
ShellNext == BrowserStep \/ NetStep \/ StartStep \/ DisplayStep \/ ShutdownStep

ShellSpec == Init /\ [][ShellNext]_vars

\* ------------------------------------------------------------------ mdns.py

\* The try block of instance i ends with exception e: the except clauses (which
\* only print) and then the finally block.
Raise(i, e) ==
    /\ rexc' = [rexc EXCEPT ![i] = e]
    /\ rpc' = [rpc EXCEPT ![i] = "finally"]

\* register_mdns_service is called: Zeroconf() opens the sockets, or fails to
\* bind; ServiceInfo(...) is built.
RegConstruct(i) ==
    /\ rpc[i] = "start"
    /\ \/ /\ rzc' = [rzc EXCEPT ![i] = "open"]
          /\ rpc' = [rpc EXCEPT ![i] = "L16"]
          /\ rexc' = rexc
       \/ /\ Raise(i, "PermissionError")
          /\ rzc' = rzc
    /\ UNCHANGED <<rbound, rcalls, announced, monVars>>

\* zeroconf.register_service(service_info) probes for the proposed name: a
\* record of another responder that answers the probe is a name conflict.
Probe(i) ==
    IF \E j \in announced : j # i THEN "NonUniqueNameException" ELSE ""

\* The probing of register_service; the call can also fail on the socket.
RegProbe(i) ==
    /\ rpc[i] = "L16"
    /\ \/ /\ Probe(i) = ""
          /\ rpc' = [rpc EXCEPT ![i] = "announce"]
          /\ rexc' = rexc
       \/ /\ Probe(i) # ""
          /\ Raise(i, Probe(i))
       \/ Raise(i, "PermissionError")
    /\ UNCHANGED <<rzc, rbound, rcalls, announced, monVars>>

\* register_service announces the records and returns; register_mdns_service
\* prints and returns, and the main block binds zeroconf and service_info.
RegAnnounce(i) ==
    /\ rpc[i] = "announce"
    /\ announced' = announced \cup {i}
    /\ rbound' = [rbound EXCEPT ![i] = TRUE]
    /\ rpc' = [rpc EXCEPT ![i] = "wait"]
    /\ UNCHANGED <<rzc, rexc, rcalls, monVars>>

\* Ctrl+C inside the try block.
RegInterrupt(i) ==
    /\ rpc[i] \in {"start", "L16", "announce", "wait"}
    /\ Raise(i, "KeyboardInterrupt")
    /\ UNCHANGED <<rzc, rbound, rcalls, announced, monVars>>

\* The finally block going straight to close.
RegFinallyCloseOnly(i) ==
    /\ rpc[i] = "finally"
    /\ rpc' = [rpc EXCEPT ![i] = IF rbound[i] THEN "L40" ELSE "end"]
    /\ UNCHANGED <<rzc, rbound, rexc, rcalls, announced, monVars>>

\* finally: if zeroconf and service_info.
RegFinally(i) ==
    /\ rpc[i] = "finally"
    /\ rpc' = [rpc EXCEPT ![i] = IF rbound[i] THEN "L39" ELSE "end"]
    /\ UNCHANGED <<rzc, rbound, rexc, rcalls, announced, monVars>>

\* zeroconf.unregister_service(service_info): the goodbye.
RegUnregister(i) ==
    /\ rpc[i] = "L39"
    /\ announced' = announced \ {i}
    /\ rcalls' = [rcalls EXCEPT ![i] = Append(@, "unregister_service")]
    /\ rpc' = [rpc EXCEPT ![i] = "L40"]
    /\ UNCHANGED <<rzc, rbound, rexc, monVars>>

\* zeroconf.close(), and the last print.
RegClose(i) ==
    /\ rpc[i] = "L40"
    /\ rzc' = [rzc EXCEPT ![i] = "closed"]
    /\ rcalls' = [rcalls EXCEPT ![i] = Append(@, "close")]
    /\ rpc' = [rpc EXCEPT ![i] = "end"]
    /\ UNCHANGED <<rbound, rexc, announced, monVars>>

RegNext ==
    \E i \in Instances :
        \/ RegConstruct(i)
        \/ RegProbe(i)
        \/ RegAnnounce(i)
        \/ RegInterrupt(i)
        \/ RegFinally(i)
        \/ RegUnregister(i)
        \/ RegClose(i)

RegSpec == Init /\ [][RegNext]_vars

\* ================================================================== claims

Range(q) == {q[i] : i \in DOMAIN q}

\* The entries of d for the names other than n, in order.
Others(d, n) == SelectSeq(d, LAMBDA e : e.name # n)

\* Browser b's handler of an Added finishes in this step, having resolved info.
Stores(b) == bpc[b].pc = "L39" /\ bpc[b].info # NoInfo /\ bpc'[b] = Idle

\* Browser b's handler of a Removed, past the test, ends in this step.
EndsRemoved(b) == bpc[b].pc = "L48" /\ bpc'[b] # bpc[b]

\* Browser b is called with Removed for n in this step.
GetsRemoved(b, n) == n \in bview[b] /\ n \notin bview'[b]

\* Browser b is called with Added for n in this step.
GetsAdded(b, n) == n \notin bview[b] /\ n \in bview'[b]

\* ------------------------------------------------------------------- C1

\* C1 as stated: an addition of n is reported only by a step that finds n
\* absent from the services map, so that an Added handled a second time with no
\* Removed in between reports nothing more.
C1_AddedReportedOnce ==
    [][\A n \in Names :
          Line("added", n) \in Range(out') => n \notin Keys(services)]_vars

\* C1 amended: when an Added for n is handled and resolved, the services map
\* holds exactly one entry for n afterwards, with the info just resolved; a
\* name that was already a key keeps its place and the other entries stay as
\* they are; and the addition is reported again, by both prints.
C1_AddedIdempotentMap ==
    [][\A b \in Browsers :
          Stores(b) =>
              LET n == bpc[b].n IN
              /\ Cardinality({i \in DOMAIN services' : services'[i].name = n}) = 1
              /\ Get(services', n) = bpc[b].info
              /\ Others(services', n) = Others(services, n)
              /\ n \in Keys(services) =>
                    /\ Len(services') = Len(services)
                    /\ Idx(services', n) = Idx(services, n)
              /\ out' = <<Line("added", n), Line("added_by_browser", n)>>]_vars

\* An Added has just been handled for a name that was a key already: it is
\* reported, and it stands before a name stored earlier.
C1_Witness ==
    /\ Len(services) = 2
    /\ out = <<Line("added", services[1].name),
               Line("added_by_browser", services[1].name)>>

\* ------------------------------------------------------------------- C2

\* C2 as stated: a Removed handler that found n in the services map removes
\* the entry of n, leaves the other entries as they are and reports one removal.
C2_RemovesKnown ==
    [][\A b \in Browsers :
          EndsRemoved(b) =>
              LET n == bpc[b].n IN
              /\ n \notin Keys(services')
              /\ Len(services') = Len(services) - 1
              /\ services' = Others(services, n)
              /\ out' = <<Line("removed", n), Line("removed_by_browser", n)>>]_vars

\* ------------------------------------------------------------------- C3

\* C3 as stated: a Removed for a name that is not in the services map leaves
\* the map as it is and prints nothing about a removal.
C3_UnknownRemovedSilent ==
    [][\A b \in Browsers, n \in Names :
          GetsRemoved(b, n) /\ n \notin Keys(services) =>
              services' = services /\ out' = <<>>]_vars

\* C3 amended: a Removed for a name that is not in the services map leaves the
\* map as it is and ends the handler without a del; remove_service prints
\* nothing, and on_service_state_change prints its one line all the same.
C3_UnknownRemovedNoOp ==
    [][\A b \in Browsers, n \in Names :
          GetsRemoved(b, n) /\ n \notin Keys(services) =>
              /\ services' = services
              /\ bpc'[b] = Idle
              /\ out' = <<Line("removed_by_browser", n)>>]_vars

\* A Removed has just been handled for a name that was not in the map.
C3_Witness ==
    \E n \in Names : out = <<Line("removed_by_browser", n)>>

\* ------------------------------------------------------------------- C4

\* C4 as stated: the names a display has listed when it completes are the keys
\* the services map had at one instant of the display, and the iteration never
\* fails because the map changed under it.
C4_SnapshotDisplay ==
    /\ mpc = "displayed" => listing \in snaps
    /\ mexc # "RuntimeError"

\* ------------------------------------------------------------------- C5

\* The threads between add_service's resolution and its store, or between
\* remove_service's test and its del.
Writers ==
    {b \in Browsers :
        \/ bpc[b].pc = "L48"
        \/ bpc[b].pc = "L39" /\ bpc[b].info # NoInfo}

\* C5 as stated: at most one thread at a time is inside a mutation of the
\* services map.
C5_SingleWriter == Cardinality(Writers) <= 1

\* ------------------------------------------------------------------- C6

\* C6 as stated: no ServiceBrowser is created on the Zeroconf instance after
\* close() has closed it.
C6_NoBrowserAfterClose == \A b \in Browsers : browsers[b] # "closed"

\* ------------------------------------------------------------------- C7

\* C7: the finally block calls unregister_service before close and never close
\* alone; and an instance whose registration returned has, when it ends,
\* called unregister_service once and then close.
C7_GoodbyeOnShutdown ==
    \A i \in Instances :
        /\ rcalls[i] \in {<<>>, <<"unregister_service">>,
                          <<"unregister_service", "close">>}
        /\ rbound[i] /\ rpc[i] = "end" =>
              rcalls[i] = <<"unregister_service", "close">>

\* An instance that had registered was interrupted while waiting and has ended.
C7_Witness ==
    \E i \in Instances :
        rbound[i] /\ rpc[i] = "end" /\ rexc[i] = "KeyboardInterrupt"

\* ------------------------------------------------------------------- C8

\* C8 as stated: of two instances that registered the same name concurrently
\* (neither interrupted, neither failing on the socket), exactly one is
\* registered and the other got the name conflict.
C8_ExactlyOneRegisters ==
    (\A i \in Instances :
        /\ rpc[i] \notin {"start", "L16", "announce"}
        /\ rexc[i] \notin {"KeyboardInterrupt", "PermissionError"})
    => /\ Cardinality({i \in Instances : rbound[i]}) = 1
       /\ Cardinality({i \in Instances : rexc[i] = "NonUniqueNameException"}) = 1

\* ------------------------------------------------------------------- C9

\* C9 as stated: an instance that has ended has closed the Zeroconf instance it
\* opened, and one whose registration failed never entered the wait loop.
C9_ClosedAtEnd ==
    \A i \in Instances :
        /\ rpc[i] = "end" => rzc[i] # "open"
        /\ rexc[i] \in {"PermissionError", "NonUniqueNameException"} => ~rbound[i]

\* ------------------------------------------------------------------ C10

C11_NoReinsert ==
    [][\A n \in Names :
          /\ Line("removed", n) \in Range(out)
          /\ net[n] = ""
          /\ net'[n] = ""
          => n \notin Keys(services')]_vars

\* ------------------------------------------------------------------ C12

\* C12 as stated: after a renew the browser created before is discarded, so
\* only the browser self.browser refers to calls on_service_state_change.
C12_OnlyCurrentDelivers ==
    [][\A b \in Browsers, n \in Names :
          GetsAdded(b, n) \/ GetsRemoved(b, n) => b = browser]_vars

\* ------------------------------------------------------------------ C13

\* C13 as stated: whichever way the try block of the monitor's main is left,
\* the finally block runs to its end without raising, and the program is
\* stopped only after close() has run and the query thread has ended.
C13_StopsWithoutRaising ==
    /\ mpc # "raised"
    /\ mpc = "stopped" => stop_event /\ zcClosed /\ qpc = "done"

\* ------------------------------------------------------------------ C14

\* Browser b's handler of an Added finishes in this step, with nothing resolved.
EndsUnresolved(b) == bpc[b].pc = "L39" /\ bpc[b].info = NoInfo /\ bpc'[b] = Idle

\* C14: an Added whose get_service_info returned nothing leaves the services
\* map as it was; every stored value is a resolved info; and a name becomes a
\* key only in the store of an Added handled for it with a resolved info.
C14_OnlyResolvedStored ==
    [][/\ \A b \in Browsers : EndsUnresolved(b) => services' = services
       /\ \A i \in DOMAIN services' : services'[i].info \in Data
       /\ \A n \in Keys(services') \ Keys(services) :
              \E b \in Browsers : Stores(b) /\ bpc[b].n = n]_vars

\* An Added for a name that is not stored has just been handled with nothing
\* resolved: only on_service_state_change's line is printed.
C14_Witness ==
    \E n \in Names :
        /\ out = <<Line("added_by_browser", n)>>
        /\ n \notin Keys(services)

\* ------------------------------------------------------------------ C15

\* C15: a step that handles an Updated leaves the services map as it was, and
\* the info stored for a name changes only in the store of an Added handled
\* for that name, whatever the service has announced since.
C15_UpdatedIgnored ==
    [][/\ \A b \in Browsers, n \in Names :
              CallUpdated(b, n) => services' = services
       /\ \A n \in Keys(services) \cap Keys(services') :
              Get(services', n) # Get(services, n)
                  => \E b \in Browsers : Stores(b) /\ bpc[b].n = n]_vars

\* A stored service has announced other data than the stored info, and a
\* browser that knows the service has just reported it as Updated (the step
\* changes nothing, so the state is the one the Updated was handled in).
C15_Witness ==
    \E b \in Browsers, n \in Keys(services) :
        /\ CanCall(b)
        /\ n \in bview[b]
        /\ net[n] # ""
        /\ Get(services, n) # net[n]
        /\ out = <<>>

\* ------------------------------------------------------------------ C16

\* C16 as stated: every stored info has at least one address, and
\* display_services never fails on reading the first address of an entry.
C16_DisplayNeverFails ==
    /\ \A i \in DOMAIN services : HasAddr(services[i].name, services[i].info)
    /\ mexc # "IndexError"

====
